---------------------------- MODULE Spec2Model ----------------------------
(***************************************************************************)
(* Process Hacker User Notes: the object database of                      *)
(* plugins/UserNotes/db.c.                                                 *)
(*                                                                         *)
(* Text is a sequence of code units: a PH_STRING is a sequence of UTF-16   *)
(* code units, a PH_BYTES / PSTR a sequence of UTF-8 bytes.  An optional   *)
(* value (a pointer that may be NULL) is a sequence of length at most      *)
(* one: <<>> is NULL, <<v>> is a pointer to v.                             *)
(*                                                                         *)
(* TLC's integers are 32 bits wide, so the widths of ULONG and ULONG64     *)
(* are scaled down: ULONG is UlongBits wide and ULONG64 (and ULONG_PTR,    *)
(* the 64-bit build) twice that.  Casts truncate modulo the width.         *)
(***************************************************************************)
EXTENDS Integers, Sequences, FiniteSets, TLC

VARIABLES
    ObjectDb,    \* the entries of the hashtable ObjectDb: a set of DB_OBJECT
    file,        \* the file SaveDb left at ObjectDbPath
    call,        \* the last call made and what it returned
    ObjectDbLock,\* the owner of ObjectDbLock: <<>> or <<thread>>
    pc,          \* per thread: where it is in the function it runs
    frame        \* per thread: the locals of the function it runs

vars == <<ObjectDb, file, call, ObjectDbLock, pc, frame>>

----------------------------------------------------------------------------
(* Bounds of the model *)

\* width of ULONG in bits (32 in the program)
UlongBits == 3

\* the largest number of objects the table holds in a checked behaviour
MaxObjects == 2

----------------------------------------------------------------------------
(* Integer widths *)

RECURSIVE Pow2(_)
Pow2(n) == IF n = 0 THEN 1 ELSE 2 * Pow2(n - 1)

ULONG_MAX == Pow2(UlongBits) - 1

ULONG64_MAX == Pow2(2 * UlongBits) - 1

\* (ULONG)v, (COLORREF)v
CastUlong(v) == v % (ULONG_MAX + 1)

\* (ULONG_PTR)v
CastUlongPtr(v) == v % (ULONG64_MAX + 1)

----------------------------------------------------------------------------
(* Optional values *)

NULL == <<>>

Ptr(v) == <<v>>

Deref(p) == p[1]

----------------------------------------------------------------------------
(* Text *)

EmptyString == <<>>

\* PhUpcaseUnicodeChar / RtlUpcaseUnicodeChar on Basic Latin and Latin-1
UpcaseChar(c) ==
    IF (c >= 97 /\ c <= 122) \/ (c >= 224 /\ c <= 254 /\ c # 247)
    THEN c - 32
    ELSE c

Upcase(s) == [i \in 1..Len(s) |-> UpcaseChar(s[i])]

\* PhEqualStringRef(a, b, IgnoreCase)
PhEqualStringRef(a, b, IgnoreCase) ==
    IF IgnoreCase THEN Upcase(a) = Upcase(b) ELSE a = b

RECURSIVE SumChars(_)
SumChars(s) == IF s = <<>> THEN 0 ELSE Head(s) + SumChars(Tail(s))

\* PhHashStringRef(s, IgnoreCase): a hash of the (upcased) code units
PhHashStringRef(s, IgnoreCase) ==
    CastUlong(SumChars(IF IgnoreCase THEN Upcase(s) ELSE s))

\* the ASCII upper case of a byte string
UpcaseBytes(s) ==
    [i \in 1..Len(s) |-> IF s[i] >= 97 /\ s[i] <= 122 THEN s[i] - 32 ELSE s[i]]

\* PhEqualBytesZ(a, b, IgnoreCase) on zero-terminated byte strings
PhEqualBytesZ(a, b, IgnoreCase) ==
    IF IgnoreCase THEN UpcaseBytes(a) = UpcaseBytes(b) ELSE a = b

\* UTF-16 code units (below U+0800) to UTF-8 bytes
RECURSIVE PhConvertUtf16ToUtf8Ex(_)
PhConvertUtf16ToUtf8Ex(s) ==
    IF s = <<>> THEN <<>>
    ELSE (IF Head(s) < 128
          THEN <<Head(s)>>
          ELSE <<192 + (Head(s) \div 64), 128 + (Head(s) % 64)>>)
         \o PhConvertUtf16ToUtf8Ex(Tail(s))

\* UTF-8 bytes to UTF-16 code units; a stray byte decodes to U+FFFD
RECURSIVE PhConvertUtf8ToUtf16(_)
PhConvertUtf8ToUtf16(b) ==
    IF b = <<>> THEN <<>>
    ELSE IF Head(b) < 128
         THEN <<Head(b)>> \o PhConvertUtf8ToUtf16(Tail(b))
    ELSE IF Head(b) >= 192 /\ Head(b) < 224 /\ Len(b) >= 2
            /\ b[2] >= 128 /\ b[2] < 192
         THEN <<(Head(b) - 192) * 64 + (b[2] - 128)>>
              \o PhConvertUtf8ToUtf16(Tail(Tail(b)))
    ELSE <<65533>> \o PhConvertUtf8ToUtf16(Tail(b))

\* StringRefToUtf8
StringRefToUtf8(Value) == PhConvertUtf16ToUtf8Ex(Value)

----------------------------------------------------------------------------
(* Numbers as decimal text *)

IsDigit(c) == c >= 48 /\ c <= 57

\* PhIntegerToString64(Value, 10, FALSE) / PhFormatToBuffer of one I64U
RECURSIVE PhIntegerToString64(_)
PhIntegerToString64(v) ==
    IF v < 10 THEN <<48 + v>>
    ELSE PhIntegerToString64(v \div 10) \o <<48 + (v % 10)>>

\* FormatValueToUtf8
FormatValueToUtf8(Value) == PhConvertUtf16ToUtf8Ex(PhIntegerToString64(Value))

\* the value of a digit string, saturating just above ULONG64_MAX
RECURSIVE DigitsValue(_, _)
DigitsValue(s, acc) ==
    IF s = <<>> THEN acc
    ELSE DigitsValue(Tail(s),
            IF acc * 10 + (Head(s) - 48) > ULONG64_MAX
            THEN ULONG64_MAX + 1
            ELSE acc * 10 + (Head(s) - 48))

\* PhStringToInteger64(String, 10, &Integer): the value left in Integer.
\* Unsigned decimal; text that is not a number, or a number that does not
\* fit 64 bits, leaves 0.
PhStringToInteger64(String) ==
    IF String # <<>> /\ (\A i \in 1..Len(String) : IsDigit(String[i]))
       /\ DigitsValue(String, 0) <= ULONG64_MAX
    THEN DigitsValue(String, 0)
    ELSE 0

----------------------------------------------------------------------------
(* DB_OBJECT and the hashtable *)

\* ObjectDbEqualFunction comparing the keys with their case
ObjectDbEqualFunction_CaseSensitive(object1, object2) ==
    object1.Tag = object2.Tag /\ PhEqualStringRef(object1.Key, object2.Key, FALSE)

\* ObjectDbEqualFunction
ObjectDbEqualFunction(object1, object2) ==
    object1.Tag = object2.Tag /\ PhEqualStringRef(object1.Key, object2.Key, TRUE)

\* ObjectDbHashFunction
ObjectDbHashFunction(object) ==
    CastUlong(object.Tag + PhHashStringRef(object.Key, TRUE))

\* the entries of Hashtable that Entry's hash code and the equal function select
MatchingEntries(Hashtable, Entry) ==
    {e \in Hashtable : /\ ObjectDbHashFunction(e) = ObjectDbHashFunction(Entry)
                       /\ ObjectDbEqualFunction(e, Entry)}

\* PhFindEntryHashtable: a pointer to the entry found, or NULL
PhFindEntryHashtable(Hashtable, Entry) ==
    IF MatchingEntries(Hashtable, Entry) = {}
    THEN NULL
    ELSE Ptr(CHOOSE e \in MatchingEntries(Hashtable, Entry) : TRUE)

\* PhAddEntryHashtableEx: adds Entry unless an equal entry is there
PhAddEntryHashtableEx(Hashtable, Entry) ==
    IF PhFindEntryHashtable(Hashtable, Entry) = NULL
    THEN [table |-> Hashtable \cup {Entry}, entry |-> Entry, added |-> TRUE]
    ELSE [table |-> Hashtable,
          entry |-> Deref(PhFindEntryHashtable(Hashtable, Entry)),
          added |-> FALSE]

\* PhRemoveEntryHashtable: removes the entry equal to Entry, if any
PhRemoveEntryHashtable(Hashtable, Entry) ==
    IF PhFindEntryHashtable(Hashtable, Entry) = NULL
    THEN Hashtable
    ELSE Hashtable \ {Deref(PhFindEntryHashtable(Hashtable, Entry))}

\* PhEnumHashtable: the entries, each once, in the table's order
RECURSIVE PhEnumHashtable(_)
PhEnumHashtable(Hashtable) ==
    IF Hashtable = {} THEN <<>>
    ELSE LET e == CHOOSE x \in Hashtable : TRUE
         IN  <<e>> \o PhEnumHashtable(Hashtable \ {e})

\* an assignment through a pointer to an entry of the table
WriteObject(Hashtable, old, new) == (Hashtable \ {old}) \cup {new}

\* InitializeDb
InitializeDb == {}

\* PhAllocateZero(sizeof(DB_OBJECT))
ZeroObject ==
    [Tag |-> 0, Key |-> EmptyString, Name |-> EmptyString, Comment |-> EmptyString,
     PriorityClass |-> 0, IoPriorityPlusOne |-> 0, BackColor |-> 0,
     Collapse |-> FALSE, AffinityMask |-> 0]

\* GetNumberOfDbObjects
GetNumberOfDbObjects(db) == Cardinality(db)

\* FindDbObject matching the name with its case
FindDbObject_CaseSensitive(db, Tag, Name) ==
    IF {e \in db : e.Tag = Tag /\ e.Key = Name} = {}
    THEN NULL
    ELSE Ptr(CHOOSE e \in db : e.Tag = Tag /\ e.Key = Name)

\* FindDbObject: a pointer to the object, or NULL
FindDbObject(db, Tag, Name) ==
    PhFindEntryHashtable(db, [Tag |-> Tag, Key |-> Name])

\* CreateDbObject without "object->BackColor = ULONG_MAX"
CreateDbObject_ZeroBackColor(db, Tag, Name, Comment) ==
    LET object == [ZeroObject EXCEPT !.Tag = Tag, !.Key = Name]
        r == PhAddEntryHashtableEx(db, object)
    IN  IF r.added
        THEN LET created == [object EXCEPT
                     !.Name = Name, !.Key = Name,
                     !.Comment = IF Comment # NULL THEN Deref(Comment)
                                 ELSE EmptyString]
             IN  [db |-> WriteObject(r.table, object, created),
                  object |-> created, added |-> TRUE]
        ELSE LET updated == IF Comment # NULL
                            THEN [r.entry EXCEPT !.Comment = Deref(Comment)]
                            ELSE r.entry
             IN  [db |-> WriteObject(r.table, r.entry, updated),
                  object |-> updated, added |-> FALSE]

\* CreateDbObject setting the comment of an existing object also when
\* Comment is NULL
CreateDbObject_AlwaysSetComment(db, Tag, Name, Comment) ==
    LET object == [ZeroObject EXCEPT !.Tag = Tag, !.Key = Name,
                                     !.BackColor = ULONG_MAX]
        r == PhAddEntryHashtableEx(db, object)
        text == IF Comment # NULL THEN Deref(Comment) ELSE EmptyString
    IN  IF r.added
        THEN LET created == [object EXCEPT !.Name = Name, !.Key = Name,
                                           !.Comment = text]
             IN  [db |-> WriteObject(r.table, object, created),
                  object |-> created, added |-> TRUE]
        ELSE LET updated == [r.entry EXCEPT !.Comment = text]
             IN  [db |-> WriteObject(r.table, r.entry, updated),
                  object |-> updated, added |-> FALSE]

\* CreateDbObject: the table afterwards, the object returned, and whether
\* it was added.  Comment is NULL or a pointer to the text.
CreateDbObject(db, Tag, Name, Comment) ==
    LET object == [ZeroObject EXCEPT !.Tag = Tag, !.Key = Name,
                                     !.BackColor = ULONG_MAX]
        r == PhAddEntryHashtableEx(db, object)
    IN  IF r.added
        THEN LET created == [object EXCEPT
                     !.Name = Name, !.Key = Name,
                     !.Comment = IF Comment # NULL THEN Deref(Comment)
                                 ELSE EmptyString]
             IN  [db |-> WriteObject(r.table, object, created),
                  object |-> created, added |-> TRUE]
        ELSE LET updated == IF Comment # NULL
                            THEN [r.entry EXCEPT !.Comment = Deref(Comment)]
                            ELSE r.entry
             IN  [db |-> WriteObject(r.table, r.entry, updated),
                  object |-> updated, added |-> FALSE]

\* DeleteDbObject removing every object of the name, whatever its tag
DeleteDbObject_AnyTag(db, Object) ==
    {o \in db : ~PhEqualStringRef(o.Key, Object.Key, TRUE)}

\* DeleteDbObject
DeleteDbObject(db, Object) == PhRemoveEntryHashtable(db, Object)

----------------------------------------------------------------------------
(* The document: the node tree of mxml, and the file that holds it *)

\* NTSTATUS values
STATUS_SUCCESS == "STATUS_SUCCESS"

STATUS_OBJECT_NAME_NOT_FOUND == "STATUS_OBJECT_NAME_NOT_FOUND"

STATUS_ACCESS_DENIED == "STATUS_ACCESS_DENIED"

STATUS_FILE_CORRUPT_ERROR == "STATUS_FILE_CORRUPT_ERROR"

NT_SUCCESS(status) == status = STATUS_SUCCESS

\* the attribute names LoadDb and SaveDb use, as bytes
AttrTag == <<116, 97, 103>>

AttrName == <<110, 97, 109, 101>>

AttrPriorityClass == <<112, 114, 105, 111, 114, 105, 116, 121, 99, 108, 97, 115, 115>>

AttrIoPriorityPlusOne == <<105, 111, 112, 114, 105, 111, 114, 105, 116, 121, 112, 108, 117, 115, 111, 110, 101>>

AttrBackColor == <<98, 97, 99, 107, 99, 111, 108, 111, 114>>

AttrCollapse == <<99, 111, 108, 108, 97, 112, 115, 101>>

AttrAffinity == <<97, 102, 102, 105, 110, 105, 116, 121>>

\* an attribute of an element: its name and its value (NULL when it has none)
Attr(name, value) == [name |-> name, value |-> value]

\* mxmlNewElement(topNode, "object") with its attributes and, in opaque,
\* what mxmlGetOpaque gives for it: the text of its first child, or NULL
ElementNode(attrs, opaque) == [type |-> "MXML_ELEMENT", attrs |-> attrs, opaque |-> opaque]

\* a text node between the elements
OpaqueNode(text) == [type |-> "MXML_OPAQUE", attrs |-> <<>>, opaque |-> Ptr(text)]

\* the file at ObjectDbPath: missing, of length zero, bytes that are no
\* document, a document whose root is text, or a document whose root is an
\* element with the child nodes `nodes`
NoFile == [kind |-> "absent", nodes |-> <<>>]

BlankFile == [kind |-> "blank", nodes |-> <<>>]

GarbageFile == [kind |-> "garbage", nodes |-> <<>>]

TextFile == [kind |-> "text", nodes |-> <<>>]

DocFile(nodes) == [kind |-> "document", nodes |-> nodes]

\* PhCreateFileWin32(..., FILE_GENERIC_READ, ..., FILE_OPEN, ...)
OpenForRead(f) ==
    IF f.kind = "absent" THEN STATUS_OBJECT_NAME_NOT_FOUND ELSE STATUS_SUCCESS

\* PhGetFileSize succeeds and gives 0
FileSizeIsZero(f) == f.kind = "blank"

\* mxmlLoadFd(NULL, fileHandle, MXML_OPAQUE_CALLBACK): the top node, or NULL
MxmlLoadFd(f) ==
    CASE f.kind = "document" -> Ptr([type |-> "MXML_ELEMENT", children |-> f.nodes])
      [] f.kind = "text" -> Ptr([type |-> "MXML_OPAQUE", children |-> <<>>])
      [] OTHER -> NULL

\* what a node written by mxmlSaveFd reads back as: an element whose text
\* is empty has nothing between its tags, and so no child
WrittenNode(node) ==
    IF node.opaque # NULL /\ Deref(node.opaque) = <<>>
    THEN [node EXCEPT !.opaque = NULL]
    ELSE node

\* mxmlSaveFd(topNode, fileHandle, MXML_NO_CALLBACK): the file written
MxmlSaveFd(topNode) ==
    DocFile([i \in 1..Len(topNode.children) |-> WrittenNode(topNode.children[i])])

\* mxmlElementGetAttrCount
MxmlElementGetAttrCount(node) ==
    IF node.type = "MXML_ELEMENT" THEN Len(node.attrs) ELSE 0

\* GetOpaqueXmlNodeText
GetOpaqueXmlNodeText(node) ==
    IF node.opaque # NULL
    THEN PhConvertUtf8ToUtf16(Deref(node.opaque))
    ELSE EmptyString

----------------------------------------------------------------------------
(* LoadDb *)

\* the strings of one node, all NULL before its attributes are read
NoStrings ==
    [tag |-> NULL, name |-> NULL, priorityClass |-> NULL,
     ioPriorityPlusOne |-> NULL, comment |-> NULL, backColor |-> NULL,
     collapse |-> NULL, affinityMask |-> NULL]

\* one turn of the attribute loop, comparing the names with their case
ReadAttr_CaseSensitive(strings, attr) ==
    IF attr.value = NULL THEN strings
    ELSE LET value == Ptr(PhConvertUtf8ToUtf16(Deref(attr.value)))
         IN  IF PhEqualBytesZ(attr.name, AttrTag, FALSE)
                 THEN [strings EXCEPT !.tag = value]
             ELSE IF PhEqualBytesZ(attr.name, AttrName, FALSE)
                 THEN [strings EXCEPT !.name = value]
             ELSE IF PhEqualBytesZ(attr.name, AttrPriorityClass, FALSE)
                 THEN [strings EXCEPT !.priorityClass = value]
             ELSE IF PhEqualBytesZ(attr.name, AttrIoPriorityPlusOne, FALSE)
                 THEN [strings EXCEPT !.ioPriorityPlusOne = value]
             ELSE IF PhEqualBytesZ(attr.name, AttrBackColor, FALSE)
                 THEN [strings EXCEPT !.backColor = value]
             ELSE IF PhEqualBytesZ(attr.name, AttrCollapse, FALSE)
                 THEN [strings EXCEPT !.collapse = value]
             ELSE IF PhEqualBytesZ(attr.name, AttrAffinity, FALSE)
                 THEN [strings EXCEPT !.affinityMask = value]
             ELSE strings

\* one turn of the attribute loop of LoadDb
ReadAttr(strings, attr) ==
    IF attr.value = NULL THEN strings
    ELSE LET value == Ptr(PhConvertUtf8ToUtf16(Deref(attr.value)))
         IN  IF PhEqualBytesZ(attr.name, AttrTag, TRUE)
                 THEN [strings EXCEPT !.tag = value]
             ELSE IF PhEqualBytesZ(attr.name, AttrName, TRUE)
                 THEN [strings EXCEPT !.name = value]
             ELSE IF PhEqualBytesZ(attr.name, AttrPriorityClass, TRUE)
                 THEN [strings EXCEPT !.priorityClass = value]
             ELSE IF PhEqualBytesZ(attr.name, AttrIoPriorityPlusOne, TRUE)
                 THEN [strings EXCEPT !.ioPriorityPlusOne = value]
             ELSE IF PhEqualBytesZ(attr.name, AttrBackColor, TRUE)
                 THEN [strings EXCEPT !.backColor = value]
             ELSE IF PhEqualBytesZ(attr.name, AttrCollapse, TRUE)
                 THEN [strings EXCEPT !.collapse = value]
             ELSE IF PhEqualBytesZ(attr.name, AttrAffinity, TRUE)
                 THEN [strings EXCEPT !.affinityMask = value]
             ELSE strings

\* the attribute loop of LoadDb
RECURSIVE ReadAttrs(_, _)
ReadAttrs(strings, attrs) ==
    IF attrs = <<>> THEN strings
    ELSE ReadAttrs(ReadAttr(strings, Head(attrs)), Tail(attrs))

\* the strings LoadDb holds for a node when it reaches "if (tag && name)"
NodeStrings(node) ==
    [(IF MxmlElementGetAttrCount(node) >= 2
      THEN ReadAttrs(NoStrings, node.attrs)
      ELSE NoStrings) EXCEPT !.comment = Ptr(GetOpaqueXmlNodeText(node))]

\* "if (tag && name)" assigning a priority only when its attribute is there
SetPriorities_IfPresent(object, s) ==
    [object EXCEPT
        !.PriorityClass =
            IF s.priorityClass # NULL
            THEN CastUlong(PhStringToInteger64(Deref(s.priorityClass)))
            ELSE object.PriorityClass,
        !.IoPriorityPlusOne =
            IF s.ioPriorityPlusOne # NULL
            THEN CastUlong(PhStringToInteger64(Deref(s.ioPriorityPlusOne)))
            ELSE object.IoPriorityPlusOne]

\* the assignments under "if (tag && name)" to the object CreateDbObject
\* returned
SetPriorities(object, s) ==
    LET priorityClassInteger ==
            IF s.priorityClass # NULL
            THEN PhStringToInteger64(Deref(s.priorityClass)) ELSE 0
        ioPriorityPlusOneInteger ==
            IF s.ioPriorityPlusOne # NULL
            THEN PhStringToInteger64(Deref(s.ioPriorityPlusOne)) ELSE 0
    IN  [object EXCEPT
            !.PriorityClass = CastUlong(priorityClassInteger),
            !.IoPriorityPlusOne = CastUlong(ioPriorityPlusOneInteger)]

\* the items handled separately, backcolor applied also when the element
\* has none
SetSeparateItems_AlwaysBackColor(object, s) ==
    LET o2 == [object EXCEPT !.BackColor =
                  IF s.backColor # NULL
                  THEN CastUlong(PhStringToInteger64(Deref(s.backColor)))
                  ELSE 0]
        o3 == IF s.collapse # NULL
              THEN [o2 EXCEPT !.Collapse = PhStringToInteger64(Deref(s.collapse)) # 0]
              ELSE o2
    IN  IF s.affinityMask # NULL
        THEN [o3 EXCEPT !.AffinityMask =
                 CastUlongPtr(PhStringToInteger64(Deref(s.affinityMask)))]
        ELSE o3

\* the items handled separately, collapse applied also when the element
\* has none
SetSeparateItems_AlwaysCollapse(object, s) ==
    LET o2 == IF s.backColor # NULL
              THEN [object EXCEPT !.BackColor =
                       CastUlong(PhStringToInteger64(Deref(s.backColor)))]
              ELSE object
        o3 == [o2 EXCEPT !.Collapse =
                  s.collapse # NULL /\ PhStringToInteger64(Deref(s.collapse)) # 0]
    IN  IF s.affinityMask # NULL
        THEN [o3 EXCEPT !.AffinityMask =
                 CastUlongPtr(PhStringToInteger64(Deref(s.affinityMask)))]
        ELSE o3

\* the items handled separately: "if (object && backColor)", "if (object &&
\* collapse)", "if (object && affinityMask)"
SetSeparateItems(object, s) ==
    LET o2 == IF s.backColor # NULL
              THEN [object EXCEPT !.BackColor =
                       CastUlong(PhStringToInteger64(Deref(s.backColor)))]
              ELSE object
        o3 == IF s.collapse # NULL
              THEN [o2 EXCEPT !.Collapse = PhStringToInteger64(Deref(s.collapse)) # 0]
              ELSE o2
    IN  IF s.affinityMask # NULL
        THEN [o3 EXCEPT !.AffinityMask =
                 CastUlongPtr(PhStringToInteger64(Deref(s.affinityMask)))]
        ELSE o3

\* the node loop's body after its attribute loop: the table after the
\* strings s read from one node are applied
LoadStrings(db, s) ==
    IF s.tag # NULL /\ s.name # NULL
    THEN LET tagInteger == PhStringToInteger64(Deref(s.tag))
             r == CreateDbObject(db, CastUlong(tagInteger), Deref(s.name), s.comment)
         IN  WriteObject(r.db, r.object,
                         SetSeparateItems(SetPriorities(r.object, s), s))
    ELSE db

\* the body of the node loop of LoadDb: the table after one node
LoadNode(db, node) == LoadStrings(db, NodeStrings(node))

\* the node loop of LoadDb
RECURSIVE LoadNodes(_, _)
LoadNodes(db, nodes) ==
    IF nodes = <<>> THEN db
    ELSE LoadNodes(LoadNode(db, Head(nodes)), Tail(nodes))

\* LoadDb loading into an emptied table
LoadDb_IntoEmptyTable(db, f) ==
    IF ~NT_SUCCESS(OpenForRead(f))
    THEN [status |-> OpenForRead(f), db |-> db]
    ELSE IF FileSizeIsZero(f)
    THEN [status |-> OpenForRead(f), db |-> db]
    ELSE IF MxmlLoadFd(f) = NULL
    THEN [status |-> STATUS_FILE_CORRUPT_ERROR, db |-> db]
    ELSE IF Deref(MxmlLoadFd(f)).type # "MXML_ELEMENT"
    THEN [status |-> STATUS_FILE_CORRUPT_ERROR, db |-> db]
    ELSE [status |-> STATUS_SUCCESS,
          db |-> LoadNodes({}, Deref(MxmlLoadFd(f)).children)]

\* LoadDb without the check of the top node's type
LoadDb_NoTypeCheck(db, f) ==
    IF ~NT_SUCCESS(OpenForRead(f))
    THEN [status |-> OpenForRead(f), db |-> db]
    ELSE IF FileSizeIsZero(f)
    THEN [status |-> OpenForRead(f), db |-> db]
    ELSE IF MxmlLoadFd(f) = NULL
    THEN [status |-> STATUS_FILE_CORRUPT_ERROR, db |-> db]
    ELSE [status |-> STATUS_SUCCESS,
          db |-> LoadNodes(db, Deref(MxmlLoadFd(f)).children)]

\* LoadDb without the check for a blank file
LoadDb_NoBlankCheck(db, f) ==
    IF ~NT_SUCCESS(OpenForRead(f))
    THEN [status |-> OpenForRead(f), db |-> db]
    ELSE IF MxmlLoadFd(f) = NULL
    THEN [status |-> STATUS_FILE_CORRUPT_ERROR, db |-> db]
    ELSE IF Deref(MxmlLoadFd(f)).type # "MXML_ELEMENT"
    THEN [status |-> STATUS_FILE_CORRUPT_ERROR, db |-> db]
    ELSE [status |-> STATUS_SUCCESS,
          db |-> LoadNodes(db, Deref(MxmlLoadFd(f)).children)]

\* LoadDb: the status returned and the table afterwards
LoadDb(db, f) ==
    IF ~NT_SUCCESS(OpenForRead(f))
    THEN [status |-> OpenForRead(f), db |-> db]
    ELSE IF FileSizeIsZero(f)
    THEN [status |-> OpenForRead(f), db |-> db]
    ELSE IF MxmlLoadFd(f) = NULL
    THEN [status |-> STATUS_FILE_CORRUPT_ERROR, db |-> db]
    ELSE IF Deref(MxmlLoadFd(f)).type # "MXML_ELEMENT"
    THEN [status |-> STATUS_FILE_CORRUPT_ERROR, db |-> db]
    ELSE [status |-> STATUS_SUCCESS,
          db |-> LoadNodes(db, Deref(MxmlLoadFd(f)).children)]

----------------------------------------------------------------------------
(* SaveDb *)

\* the body of the enumeration loop of SaveDb without the affinity attribute
SaveNode_NoAffinity(object) ==
    ElementNode(
        <<Attr(AttrTag, Ptr(FormatValueToUtf8(object.Tag))),
          Attr(AttrName, Ptr(StringRefToUtf8(object.Name))),
          Attr(AttrPriorityClass, Ptr(FormatValueToUtf8(object.PriorityClass))),
          Attr(AttrIoPriorityPlusOne, Ptr(FormatValueToUtf8(object.IoPriorityPlusOne))),
          Attr(AttrBackColor, Ptr(FormatValueToUtf8(object.BackColor))),
          Attr(AttrCollapse, Ptr(FormatValueToUtf8(IF object.Collapse THEN 1 ELSE 0)))>>,
        Ptr(StringRefToUtf8(object.Comment)))

\* the element of one object, without backcolor when it is ULONG_MAX
SaveNode_NoDefaultBackColor(object) ==
    ElementNode(
        <<Attr(AttrTag, Ptr(FormatValueToUtf8(object.Tag))),
          Attr(AttrName, Ptr(StringRefToUtf8(object.Name))),
          Attr(AttrPriorityClass, Ptr(FormatValueToUtf8(object.PriorityClass))),
          Attr(AttrIoPriorityPlusOne, Ptr(FormatValueToUtf8(object.IoPriorityPlusOne)))>>
        \o (IF object.BackColor # ULONG_MAX
            THEN <<Attr(AttrBackColor, Ptr(FormatValueToUtf8(object.BackColor)))>>
            ELSE <<>>)
        \o <<Attr(AttrCollapse, Ptr(FormatValueToUtf8(IF object.Collapse THEN 1 ELSE 0))),
             Attr(AttrAffinity, Ptr(FormatValueToUtf8(object.AffinityMask)))>>,
        Ptr(StringRefToUtf8(object.Comment)))

\* the body of the enumeration loop of SaveDb: the element of one object
SaveNode(object) ==
    ElementNode(
        <<Attr(AttrTag, Ptr(FormatValueToUtf8(object.Tag))),
          Attr(AttrName, Ptr(StringRefToUtf8(object.Name))),
          Attr(AttrPriorityClass, Ptr(FormatValueToUtf8(object.PriorityClass))),
          Attr(AttrIoPriorityPlusOne, Ptr(FormatValueToUtf8(object.IoPriorityPlusOne))),
          Attr(AttrBackColor, Ptr(FormatValueToUtf8(object.BackColor))),
          Attr(AttrCollapse, Ptr(FormatValueToUtf8(IF object.Collapse THEN 1 ELSE 0))),
          Attr(AttrAffinity, Ptr(FormatValueToUtf8(object.AffinityMask)))>>,
        Ptr(StringRefToUtf8(object.Comment)))

\* the enumeration loop of SaveDb: the top node "objects" it builds
SaveNodes(db) ==
    [type |-> "MXML_ELEMENT",
     children |-> [i \in 1..Len(PhEnumHashtable(db)) |-> SaveNode(PhEnumHashtable(db)[i])]]

\* SaveDb: the status returned and the file afterwards.  io is what the
\* file system does: "ok", "openfail" (PhCreateFileWin32 fails) or
\* "writefail" (the file is opened, and so truncated, and mxmlSaveFd fails)
SaveDb(db, f, io) ==
    IF io = "openfail"
    THEN [status |-> STATUS_ACCESS_DENIED, file |-> f]
    ELSE IF io = "writefail"
    THEN [status |-> STATUS_SUCCESS, file |-> GarbageFile]
    ELSE [status |-> STATUS_SUCCESS, file |-> MxmlSaveFd(SaveNodes(db))]

----------------------------------------------------------------------------
(* The inputs of the checked behaviours *)

Tags == {1, 2}

\* "a" and "A"
Names == {<<97>>, <<65>>}

\* no comment, the empty comment, "hello"
Comments == {NULL, Ptr(EmptyString), Ptr(<<104, 101, 108, 108, 111>>)}

\* what the host assigns to the fields of an object it holds
FieldValues ==
    {[PriorityClass |-> 2, IoPriorityPlusOne |-> 1, BackColor |-> ULONG_MAX - 2,
      Collapse |-> TRUE, AffinityMask |-> ULONG_MAX + 2],
     [PriorityClass |-> 0, IoPriorityPlusOne |-> 0, BackColor |-> ULONG_MAX,
      Collapse |-> FALSE, AffinityMask |-> 0]}

\* <object tag="1" name="a" priorityclass="2" collapse="1">hello</object>
ExampleElement ==
    ElementNode(<<Attr(AttrTag, Ptr(FormatValueToUtf8(1))),
                  Attr(AttrName, Ptr(<<97>>)),
                  Attr(AttrPriorityClass, Ptr(FormatValueToUtf8(2))),
                  Attr(AttrCollapse, Ptr(FormatValueToUtf8(1)))>>,
                Ptr(<<104, 101, 108, 108, 111>>))

\* <object tag="1" name="A" backcolor="x"></object>
BadColorElement ==
    ElementNode(<<Attr(AttrTag, Ptr(FormatValueToUtf8(1))),
                  Attr(AttrName, Ptr(<<65>>)),
                  Attr(AttrBackColor, Ptr(<<120>>))>>,
                NULL)

\* <object name="a" priorityclass="2">hello</object>
NoTagElement ==
    ElementNode(<<Attr(AttrName, Ptr(<<97>>)),
                  Attr(AttrPriorityClass, Ptr(FormatValueToUtf8(2)))>>,
                Ptr(<<104, 101, 108, 108, 111>>))

\* <object tag="2" priorityclass="2"></object>
NoNameElement ==
    ElementNode(<<Attr(AttrTag, Ptr(FormatValueToUtf8(2))),
                  Attr(AttrPriorityClass, Ptr(FormatValueToUtf8(2)))>>,
                NULL)

\* <object TAG="2" NAME="&#233;"></object>
UpperCaseElement ==
    ElementNode(<<Attr(<<84, 65, 71>>, Ptr(FormatValueToUtf8(2))),
                  Attr(<<78, 65, 77, 69>>, Ptr(<<195, 169>>))>>,
                NULL)

\* tag and affinity just above ULONG_MAX, backcolor just above ULONG64_MAX
OutOfRangeElement ==
    ElementNode(<<Attr(AttrTag, Ptr(FormatValueToUtf8(ULONG_MAX + 2))),
                  Attr(AttrName, Ptr(<<97>>)),
                  Attr(AttrBackColor, Ptr(FormatValueToUtf8(ULONG64_MAX + 1))),
                  Attr(AttrAffinity, Ptr(FormatValueToUtf8(ULONG_MAX + 2)))>>,
                NULL)

\* <object tag="2" name="a" iopriorityplusone="1" backcolor="0" affinity="1"> </object>
PartialElement ==
    ElementNode(<<Attr(AttrTag, Ptr(FormatValueToUtf8(2))),
                  Attr(AttrName, Ptr(<<97>>)),
                  Attr(AttrIoPriorityPlusOne, Ptr(FormatValueToUtf8(1))),
                  Attr(AttrBackColor, Ptr(FormatValueToUtf8(0))),
                  Attr(AttrAffinity, Ptr(FormatValueToUtf8(1)))>>,
                NULL)

\* <object Tag="1" Name="a" BackColor="5"></object>
MixedCaseElement ==
    ElementNode(<<Attr(<<84, 97, 103>>, Ptr(FormatValueToUtf8(1))),
                  Attr(<<78, 97, 109, 101>>, Ptr(<<97>>)),
                  Attr(<<66, 97, 99, 107, 67, 111, 108, 111, 114>>,
                       Ptr(FormatValueToUtf8(5)))>>,
                NULL)

\* <object tag="1"></object>
OneAttrElement == ElementNode(<<Attr(AttrTag, Ptr(FormatValueToUtf8(1)))>>, NULL)

\* the child nodes of the documents that are loaded
Documents ==
    {<<>>,
     <<ExampleElement>>,
     <<BadColorElement>>,
     <<ExampleElement, BadColorElement>>,
     <<NoTagElement, ExampleElement>>,
     <<NoNameElement, OpaqueNode(<<10>>), OneAttrElement>>,
     <<UpperCaseElement>>,
     <<OutOfRangeElement>>,
     <<PartialElement, ExampleElement>>}

\* the files that are loaded
LoadInputs ==
    {NoFile, BlankFile, GarbageFile, TextFile} \cup {DocFile(d) : d \in Documents}

----------------------------------------------------------------------------
(* The calls of one caller, each function run from its call to its return *)

\* call: the function last called, its arguments, what it returned; for
\* LoadDb and SaveDb, file is the file found or left at ObjectDbPath; for
\* LoadDb, before is the number of objects when it was called; for SaveDb,
\* db is the table it enumerated
NoCall ==
    [op |-> "none", tag |-> 0, name |-> EmptyString, comment |-> NULL,
     status |-> "", ret |-> NULL, n |-> 0, file |-> NoFile, before |-> 0,
     db |-> {}]

\* the threads that call into the database
NumThreads == 2

Threads == 1..NumThreads

\* frame[t]: whether thread t holds ObjectDbLock, the arguments of the
\* function it is in, the nodes LoadDb has still to read, the enumeration
\* key of SaveDb and the child nodes it has made; and, for what is stated
\* of LoadDb and SaveDb, the child nodes of the document LoadDb read (doc)
\* and the table as it was when LockDb() returned (atLock)
NoFrame ==
    [holds |-> FALSE, tag |-> 0, name |-> EmptyString, comment |-> NULL,
     object |-> NULL, nodes |-> <<>>, enumerationKey |-> 0, children |-> <<>>,
     doc |-> <<>>, atLock |-> {}]

Init ==
    /\ ObjectDb = InitializeDb
    /\ file = NoFile
    /\ call = NoCall
    /\ ObjectDbLock = NULL
    /\ pc = [t \in Threads |-> "idle"]
    /\ frame = [t \in Threads |-> NoFrame]

CallGetNumberOfDbObjects ==
    /\ call' = [NoCall EXCEPT !.op = "count", !.n = GetNumberOfDbObjects(ObjectDb)]
    /\ UNCHANGED <<ObjectDb, file, ObjectDbLock, pc, frame>>

CallFindDbObject(Tag, Name) ==
    /\ call' = [NoCall EXCEPT !.op = "find", !.tag = Tag, !.name = Name,
                              !.ret = FindDbObject(ObjectDb, Tag, Name)]
    /\ UNCHANGED <<ObjectDb, file, ObjectDbLock, pc, frame>>

CallCreateDbObject(Tag, Name, Comment) ==
    LET r == CreateDbObject(ObjectDb, Tag, Name, Comment)
    IN  /\ Cardinality(r.db) <= MaxObjects
        /\ ObjectDb' = r.db
        /\ call' = [NoCall EXCEPT !.op = "create", !.tag = Tag, !.name = Name,
                                  !.comment = Comment, !.ret = Ptr(r.object),
                                  !.status = IF r.added THEN "added" ELSE "existing"]
        /\ UNCHANGED <<file, ObjectDbLock, pc, frame>>

CallDeleteDbObject(Object) ==
    /\ ObjectDb' = DeleteDbObject(ObjectDb, Object)
    /\ call' = [NoCall EXCEPT !.op = "delete", !.tag = Object.Tag,
                              !.name = Object.Name]
    /\ UNCHANGED <<file, ObjectDbLock, pc, frame>>

\* the host assigns to the fields of an object CreateDbObject or
\* FindDbObject returned
AssignFields(Object, v) ==
    /\ ObjectDb' = WriteObject(ObjectDb, Object,
            [Object EXCEPT !.PriorityClass = v.PriorityClass,
                           !.IoPriorityPlusOne = v.IoPriorityPlusOne,
                           !.BackColor = v.BackColor,
                           !.Collapse = v.Collapse,
                           !.AffinityMask = v.AffinityMask])
    /\ call' = [NoCall EXCEPT !.op = "assign", !.tag = Object.Tag,
                              !.name = Object.Name]
    /\ UNCHANGED <<file, ObjectDbLock, pc, frame>>

\* LoadDb when f is the file at ObjectDbPath: the one SaveDb left there, or
\* one put there from outside the program
CallLoadDb(f) ==
    LET r == LoadDb(ObjectDb, f)
    IN  /\ Cardinality(r.db) <= MaxObjects
        /\ ObjectDb' = r.db
        /\ call' = [NoCall EXCEPT !.op = "load", !.status = r.status, !.file = f,
                                  !.before = GetNumberOfDbObjects(ObjectDb)]
        /\ UNCHANGED <<file, ObjectDbLock, pc, frame>>

Next ==
    \/ CallGetNumberOfDbObjects
    \/ \E Tag \in Tags, Name \in Names : CallFindDbObject(Tag, Name)
    \/ \E Tag \in Tags, Name \in Names, Comment \in Comments :
          CallCreateDbObject(Tag, Name, Comment)
    \/ \E Object \in ObjectDb : CallDeleteDbObject(Object)
    \/ \E Object \in ObjectDb, v \in FieldValues : AssignFields(Object, v)
    \/ \E f \in LoadInputs \cup {file} : CallLoadDb(f)

Spec == Init /\ [][Next]_vars

----------------------------------------------------------------------------
(* The life of the process: the host fills the table, SaveDb writes it,    *)
(* the process ends and starts again with an empty table, LoadDb reads the *)
(* file SaveDb left.                                                       *)

\* "a", "A" and U+00E9
SaveNames == {<<97>>, <<65>>, <<233>>}

\* what the file system does with the file SaveDb opens and writes
SaveOutcomes == {"ok", "openfail", "writefail"}

\* the host is running: nothing has been saved yet
Running == call.op \in {"none", "create", "assign", "delete"}

CallSaveDb(io) ==
    LET r == SaveDb(ObjectDb, file, io)
    IN  /\ Running
        /\ file' = r.file
        /\ call' = [NoCall EXCEPT !.op = "save", !.status = r.status,
                                  !.file = r.file, !.db = ObjectDb]
        /\ UNCHANGED <<ObjectDb, ObjectDbLock, pc, frame>>

\* the process ends after SaveDb and starts again: InitializeDb
Restart ==
    /\ call.op = "save"
    /\ ObjectDb' = InitializeDb
    /\ call' = [call EXCEPT !.op = "restart"]
    /\ UNCHANGED <<file, ObjectDbLock, pc, frame>>

NextSave ==
    \/ /\ Running
       /\ \E Tag \in Tags, Name \in SaveNames, Comment \in Comments :
             CallCreateDbObject(Tag, Name, Comment)
    \/ /\ Running
       /\ \E Object \in ObjectDb : CallDeleteDbObject(Object)
    \/ /\ Running
       /\ \E Object \in ObjectDb, v \in FieldValues : AssignFields(Object, v)
    \/ \E io \in SaveOutcomes : CallSaveDb(io)
    \/ Restart
    \/ /\ call.op = "restart"
       /\ CallLoadDb(file)

SpecSave == Init /\ [][NextSave]_vars

----------------------------------------------------------------------------
(* Threads.  Each thread calls LockDb, UnlockDb, the four functions of the *)
(* table, LoadDb and SaveDb.  A function of the table is entered in one    *)
(* step and runs to its return in a second; LoadDb and SaveDb take one     *)
(* step for each node and each object.  No function of the table takes the *)
(* lock itself (LoadDb calls CreateDbObject inside its own LockDb, and the  *)
(* lock is not reentrant): the host calls them between LockDb and UnlockDb. *)

ConcTags == {1}

ConcNames == {<<97>>}

ConcComments == {Ptr(<<104, 101, 108, 108, 111>>)}

ConcLoadInputs == {NoFile, BlankFile, TextFile, DocFile(<<PartialElement, ExampleElement>>)}

\* LockDb: PhAcquireQueuedLockExclusive returns when no thread holds the
\* lock, and the caller then holds it
LockDb(t) == ObjectDbLock = NULL /\ ObjectDbLock' = Ptr(t)

\* UnlockDb: PhReleaseQueuedLockExclusive
UnlockDb(t) == ObjectDbLock' = NULL

\* thread t, holding no lock, calls LockDb
CallLockDb(t) ==
    /\ pc[t] = "idle" /\ ~frame[t].holds
    /\ pc' = [pc EXCEPT ![t] = "LockDb"]
    /\ UNCHANGED <<ObjectDb, file, call, ObjectDbLock, frame>>

ReturnLockDb(t) ==
    /\ pc[t] = "LockDb"
    /\ LockDb(t)
    /\ pc' = [pc EXCEPT ![t] = "idle"]
    /\ frame' = [frame EXCEPT ![t].holds = TRUE]
    /\ UNCHANGED <<ObjectDb, file, call>>

\* thread t, holding the lock, calls UnlockDb
CallUnlockDb(t) ==
    /\ pc[t] = "idle" /\ frame[t].holds
    /\ UnlockDb(t)
    /\ frame' = [frame EXCEPT ![t].holds = FALSE]
    /\ UNCHANGED <<ObjectDb, file, call, pc>>

\* thread t, holding the lock, enters a function of the table
EnterGetNumberOfDbObjects(t) ==
    /\ pc[t] = "idle" /\ frame[t].holds
    /\ pc' = [pc EXCEPT ![t] = "GetNumberOfDbObjects"]
    /\ UNCHANGED <<ObjectDb, file, call, ObjectDbLock, frame>>

EnterFindDbObject(t, Tag, Name) ==
    /\ pc[t] = "idle" /\ frame[t].holds
    /\ pc' = [pc EXCEPT ![t] = "FindDbObject"]
    /\ frame' = [frame EXCEPT ![t].tag = Tag, ![t].name = Name]
    /\ UNCHANGED <<ObjectDb, file, call, ObjectDbLock>>

EnterCreateDbObject(t, Tag, Name, Comment) ==
    /\ pc[t] = "idle" /\ frame[t].holds
    /\ pc' = [pc EXCEPT ![t] = "CreateDbObject"]
    /\ frame' = [frame EXCEPT ![t].tag = Tag, ![t].name = Name,
                              ![t].comment = Comment]
    /\ UNCHANGED <<ObjectDb, file, call, ObjectDbLock>>

EnterDeleteDbObject(t, Object) ==
    /\ pc[t] = "idle" /\ frame[t].holds
    /\ pc' = [pc EXCEPT ![t] = "DeleteDbObject"]
    /\ frame' = [frame EXCEPT ![t].object = Ptr(Object)]
    /\ UNCHANGED <<ObjectDb, file, call, ObjectDbLock>>

\* the function thread t is in runs to its return
RunGetNumberOfDbObjects(t) ==
    /\ pc[t] = "GetNumberOfDbObjects"
    /\ pc' = [pc EXCEPT ![t] = "idle"]
    /\ UNCHANGED <<ObjectDb, file, call, ObjectDbLock, frame>>

RunFindDbObject(t) ==
    /\ pc[t] = "FindDbObject"
    /\ pc' = [pc EXCEPT ![t] = "idle"]
    /\ frame' = [frame EXCEPT ![t] = [NoFrame EXCEPT !.holds = frame[t].holds]]
    /\ UNCHANGED <<ObjectDb, file, call, ObjectDbLock>>

RunCreateDbObject(t) ==
    /\ pc[t] = "CreateDbObject"
    /\ ObjectDb' = CreateDbObject(ObjectDb, frame[t].tag, frame[t].name,
                                frame[t].comment).db
    /\ pc' = [pc EXCEPT ![t] = "idle"]
    /\ frame' = [frame EXCEPT ![t] = [NoFrame EXCEPT !.holds = frame[t].holds]]
    /\ UNCHANGED <<file, call, ObjectDbLock>>

RunDeleteDbObject(t) ==
    /\ pc[t] = "DeleteDbObject"
    /\ ObjectDb' = DeleteDbObject(ObjectDb, Deref(frame[t].object))
    /\ pc' = [pc EXCEPT ![t] = "idle"]
    /\ frame' = [frame EXCEPT ![t] = [NoFrame EXCEPT !.holds = frame[t].holds]]
    /\ UNCHANGED <<file, call, ObjectDbLock>>

\* thread t, holding no lock, calls LoadDb when f is the file at
\* ObjectDbPath: LoadDb up to its LockDb()
EnterLoadDb(t, f) ==
    /\ pc[t] = "idle" /\ ~frame[t].holds
    /\ IF /\ NT_SUCCESS(OpenForRead(f)) /\ ~FileSizeIsZero(f)
          /\ MxmlLoadFd(f) # NULL
          /\ Deref(MxmlLoadFd(f)).type = "MXML_ELEMENT"
       THEN /\ pc' = [pc EXCEPT ![t] = "LoadDb_lock"]
            /\ frame' = [frame EXCEPT ![t].nodes = Deref(MxmlLoadFd(f)).children,
                                      ![t].doc = Deref(MxmlLoadFd(f)).children]
       ELSE /\ pc' = [pc EXCEPT ![t] = "LoadDb_return"]
            /\ frame' = frame
    /\ UNCHANGED <<ObjectDb, file, call, ObjectDbLock>>

\* LoadDb returns a status from before its LockDb()
LoadDbReturnEarly(t) ==
    /\ pc[t] = "LoadDb_return"
    /\ pc' = [pc EXCEPT ![t] = "idle"]
    /\ UNCHANGED <<ObjectDb, file, call, ObjectDbLock, frame>>

\* LoadDb going on to its node loop without LockDb()
LoadDbLock_NoLockDb(t) ==
    /\ pc[t] = "LoadDb_lock"
    /\ pc' = [pc EXCEPT ![t] = "LoadDb_loop"]
    /\ UNCHANGED <<ObjectDb, file, call, ObjectDbLock, frame>>

LoadDbLock(t) ==
    /\ pc[t] = "LoadDb_lock"
    /\ LockDb(t)
    /\ pc' = [pc EXCEPT ![t] = "LoadDb_loop"]
    /\ frame' = [frame EXCEPT ![t].holds = TRUE, ![t].atLock = ObjectDb]
    /\ UNCHANGED <<ObjectDb, file, call>>

\* one turn of the node loop, leaving the loop at a node without tag or name
LoadDbNode_BreakOnSkipped(t) ==
    /\ pc[t] = "LoadDb_loop" /\ frame[t].nodes # <<>>
    /\ \E s \in {NodeStrings(Head(frame[t].nodes))} :
           /\ ObjectDb' = LoadStrings(ObjectDb, s)
           /\ frame' = [frame EXCEPT ![t].nodes =
                           IF s.tag = NULL \/ s.name = NULL
                           THEN <<>> ELSE Tail(frame[t].nodes)]
    /\ UNCHANGED <<file, call, ObjectDbLock, pc>>

\* one turn of the node loop
LoadDbNode(t) ==
    /\ pc[t] = "LoadDb_loop" /\ frame[t].nodes # <<>>
    /\ \E s \in {NodeStrings(Head(frame[t].nodes))} :
           ObjectDb' = LoadStrings(ObjectDb, s)
    /\ frame' = [frame EXCEPT ![t].nodes = Tail(frame[t].nodes)]
    /\ UNCHANGED <<file, call, ObjectDbLock, pc>>

\* the node loop has ended, and LoadDb returns without UnlockDb()
LoadDbUnlock_NoUnlockDb(t) ==
    /\ pc[t] = "LoadDb_loop" /\ frame[t].nodes = <<>>
    /\ pc' = [pc EXCEPT ![t] = "idle"]
    /\ frame' = [frame EXCEPT ![t] = [NoFrame EXCEPT !.holds = TRUE]]
    /\ UNCHANGED <<ObjectDb, file, call, ObjectDbLock>>

\* the node loop has ended: UnlockDb() and return
LoadDbUnlock(t) ==
    /\ pc[t] = "LoadDb_loop" /\ frame[t].nodes = <<>>
    /\ UnlockDb(t)
    /\ pc' = [pc EXCEPT ![t] = "idle"]
    /\ frame' = [frame EXCEPT ![t] = NoFrame]
    /\ UNCHANGED <<ObjectDb, file, call>>

\* thread t, holding no lock, calls SaveDb: SaveDb up to its LockDb()
EnterSaveDb(t) ==
    /\ pc[t] = "idle" /\ ~frame[t].holds
    /\ pc' = [pc EXCEPT ![t] = "SaveDb_lock"]
    /\ UNCHANGED <<ObjectDb, file, call, ObjectDbLock, frame>>

\* SaveDb going on to its enumeration without LockDb()
SaveDbLock_NoLockDb(t) ==
    /\ pc[t] = "SaveDb_lock"
    /\ pc' = [pc EXCEPT ![t] = "SaveDb_loop"]
    /\ frame' = [frame EXCEPT ![t].atLock = ObjectDb]
    /\ UNCHANGED <<ObjectDb, file, call, ObjectDbLock>>

SaveDbLock(t) ==
    /\ pc[t] = "SaveDb_lock"
    /\ LockDb(t)
    /\ pc' = [pc EXCEPT ![t] = "SaveDb_loop"]
    /\ frame' = [frame EXCEPT ![t].holds = TRUE, ![t].atLock = ObjectDb]
    /\ UNCHANGED <<ObjectDb, file, call>>

\* one turn of the enumeration loop
SaveDbObject(t) ==
    /\ pc[t] = "SaveDb_loop"
    /\ frame[t].enumerationKey < Len(PhEnumHashtable(ObjectDb))
    /\ frame' = [frame EXCEPT
                  ![t].enumerationKey = frame[t].enumerationKey + 1,
                  ![t].children = Append(frame[t].children,
                      SaveNode(PhEnumHashtable(ObjectDb)[frame[t].enumerationKey + 1]))]
    /\ UNCHANGED <<ObjectDb, file, call, ObjectDbLock, pc>>

\* the enumeration has ended: UnlockDb()
SaveDbUnlock(t) ==
    /\ pc[t] = "SaveDb_loop"
    /\ frame[t].enumerationKey >= Len(PhEnumHashtable(ObjectDb))
    /\ UnlockDb(t)
    /\ pc' = [pc EXCEPT ![t] = "SaveDb_write"]
    /\ frame' = [frame EXCEPT ![t].holds = FALSE]
    /\ UNCHANGED <<ObjectDb, file, call>>

\* the file is opened and the document written, and SaveDb returns
SaveDbWrite(t, io) ==
    /\ pc[t] = "SaveDb_write"
    /\ file' = IF io = "openfail" THEN file
               ELSE IF io = "writefail" THEN GarbageFile
               ELSE MxmlSaveFd([type |-> "MXML_ELEMENT",
                                children |-> frame[t].children])
    /\ pc' = [pc EXCEPT ![t] = "idle"]
    /\ frame' = [frame EXCEPT ![t] = NoFrame]
    /\ UNCHANGED <<ObjectDb, call, ObjectDbLock>>

NextConc ==
    \E t \in Threads :
        \/ CallLockDb(t)
        \/ ReturnLockDb(t)
        \/ CallUnlockDb(t)
        \/ EnterGetNumberOfDbObjects(t)
        \/ \E Tag \in ConcTags, Name \in ConcNames : EnterFindDbObject(t, Tag, Name)
        \/ \E Tag \in ConcTags, Name \in ConcNames, Comment \in ConcComments :
              EnterCreateDbObject(t, Tag, Name, Comment)
        \/ \E Object \in ObjectDb : EnterDeleteDbObject(t, Object)
        \/ RunGetNumberOfDbObjects(t)
        \/ RunFindDbObject(t)
        \/ RunCreateDbObject(t)
        \/ RunDeleteDbObject(t)
        \/ \E f \in ConcLoadInputs \cup {file} : EnterLoadDb(t, f)
        \/ LoadDbReturnEarly(t)
        \/ LoadDbLock(t)
        \/ LoadDbNode(t)
        \/ LoadDbUnlock(t)
        \/ EnterSaveDb(t)
        \/ SaveDbLock(t)
        \/ SaveDbObject(t)
        \/ SaveDbUnlock(t)
        \/ \E io \in SaveOutcomes : SaveDbWrite(t, io)

SpecConc == Init /\ [][NextConc]_vars

\* The threads with fewer calls to choose from: CreateDbObject between
\* LockDb and UnlockDb, LoadDb and SaveDb.
NextLock ==
    \E t \in Threads :
        \/ CallLockDb(t)
        \/ ReturnLockDb(t)
        \/ CallUnlockDb(t)
        \/ \E Tag \in ConcTags, Name \in ConcNames, Comment \in ConcComments :
              EnterCreateDbObject(t, Tag, Name, Comment)
        \/ RunCreateDbObject(t)
        \/ \E f \in ConcLoadInputs : EnterLoadDb(t, f)
        \/ LoadDbReturnEarly(t)
        \/ LoadDbLock(t)
        \/ LoadDbNode(t)
        \/ LoadDbUnlock(t)
        \/ EnterSaveDb(t)
        \/ SaveDbLock(t)
        \/ SaveDbObject(t)
        \/ SaveDbUnlock(t)
        \/ \E io \in SaveOutcomes : SaveDbWrite(t, io)

\* a step of the function thread t is in that waits for nothing
Proceed(t) ==
    \/ RunCreateDbObject(t)
    \/ LoadDbReturnEarly(t)
    \/ LoadDbNode(t)
    \/ LoadDbUnlock(t)
    \/ SaveDbObject(t)
    \/ SaveDbUnlock(t)
    \/ \E io \in SaveOutcomes : SaveDbWrite(t, io)

\* thread t, waiting in LockDb, gets the lock
Acquire(t) == ReturnLockDb(t) \/ LoadDbLock(t) \/ SaveDbLock(t)

\* Scheduling.  A thread that can take a step of the function it is in
\* takes it; a thread that waits for the lock gets it when it is free
\* again and again (the queued lock wakes its waiters); and the host, which
\* holds the lock for a few calls, calls UnlockDb in the end.
FairLock ==
    \A t \in Threads :
        /\ WF_vars(Proceed(t))
        /\ SF_vars(Acquire(t))
        /\ SF_vars(CallUnlockDb(t))

SpecLock == Init /\ [][NextLock]_vars /\ FairLock

----------------------------------------------------------------------------
(* LoadDb node by node.  One caller makes objects and assigns their        *)
(* fields, and calls LoadDb, which is followed through its node loop one   *)
(* node at a time.                                                         *)

\* the child nodes of the documents that are loaded node by node
StepDocuments ==
    Documents \cup
        {<<BadColorElement, ExampleElement>>,
         <<ExampleElement, NoNameElement, PartialElement>>,
         <<OutOfRangeElement, ExampleElement>>,
         <<OneAttrElement, UpperCaseElement, NoTagElement>>,
         <<MixedCaseElement>>}

StepNames == {<<97>>}

StepComments == {Ptr(<<104, 101, 108, 108, 111>>)}

\* the thread that calls
Caller == CHOOSE t \in Threads : TRUE

NextLoad ==
    \/ /\ pc[Caller] = "idle"
       /\ \E Tag \in Tags, Name \in StepNames, Comment \in StepComments :
             CallCreateDbObject(Tag, Name, Comment)
    \/ /\ pc[Caller] = "idle"
       /\ \E Object \in ObjectDb, v \in FieldValues : AssignFields(Object, v)
    \/ /\ Cardinality(ObjectDb) < MaxObjects
       /\ \E d \in StepDocuments : EnterLoadDb(Caller, DocFile(d))
    \/ \E f \in {NoFile, BlankFile, GarbageFile, TextFile} : EnterLoadDb(Caller, f)
    \/ LoadDbReturnEarly(Caller)
    \/ LoadDbLock(Caller)
    \/ LoadDbNode(Caller)
    \/ LoadDbUnlock(Caller)

SpecLoad == Init /\ [][NextLoad]_vars

----------------------------------------------------------------------------
(* What the claims are stated with *)

\* the key of object o is (Tag, Name): the tag, and the name whatever its case
HasKey(o, Tag, Name) == o.Tag = Tag /\ Upcase(o.Name) = Upcase(Name)

\* the live records of key (Tag, Name)
Live(db, Tag, Name) == {o \in db : HasKey(o, Tag, Name)}

\* a record as CreateDbObject makes it: every field but the comment default
DefaultRecord(Tag, Name, Comment) ==
    [Tag |-> Tag, Key |-> Name, Name |-> Name, Comment |-> Comment,
     PriorityClass |-> 0, IoPriorityPlusOne |-> 0, BackColor |-> ULONG_MAX,
     Collapse |-> FALSE, AffinityMask |-> 0]

\* every field the host assigns is off its default
NonDefault(o) ==
    /\ o.PriorityClass # 0
    /\ o.IoPriorityPlusOne # 0
    /\ o.BackColor # ULONG_MAX
    /\ o.Collapse
    /\ o.AffinityMask # 0

----------------------------------------------------------------------------
(* C1: in every reachable state no two live records have the same tag and  *)
(* names that are equal ignoring case.                                     *)
C1_KeysUnique ==
    \A o1 \in ObjectDb, o2 \in ObjectDb :
        (o1.Tag = o2.Tag /\ Upcase(o1.Name) = Upcase(o2.Name)) => o1 = o2

\* a document with two elements of one key, "a" and "A", has been loaded
\* into a table that held another key, and left one record of the key
C1_Witness ==
    /\ call.op = "load"
    /\ call.file = DocFile(<<ExampleElement, BadColorElement>>)
    /\ call.before = 1
    /\ Cardinality(ObjectDb) = 2
    /\ Cardinality(Live(ObjectDb, 1, <<97>>)) = 1

----------------------------------------------------------------------------
(* C2: FindDbObject(tag, name) returns a live record exactly when some     *)
(* live record has the tag and a name equal to `name` ignoring case, and   *)
(* then it returns that record as it is in the table; and CreateDbObject   *)
(* followed by FindDbObject on the same tag and a name equal ignoring case *)
(* returns the record CreateDbObject returned.                             *)
C2_FindReturnsLive ==
    /\ [](call.op = "find" =>
            /\ (call.ret = NULL) <=> (Live(ObjectDb, call.tag, call.name) = {})
            /\ call.ret # NULL => Deref(call.ret) \in Live(ObjectDb, call.tag, call.name))
    /\ [][(/\ call.op = "create"
           /\ call'.op = "find"
           /\ call'.tag = call.tag
           /\ Upcase(call'.name) = Upcase(call.name)) => call'.ret = call.ret]_vars

\* a find by a name in another case returned a record with a comment and
\* assigned fields, while a record of the other tag is live
C2_Witness ==
    /\ call.op = "find"
    /\ call.ret # NULL
    /\ Deref(call.ret).Name # call.name
    /\ Deref(call.ret).Comment # EmptyString
    /\ NonDefault(Deref(call.ret))
    /\ \E o \in ObjectDb : o.Tag # call.tag

----------------------------------------------------------------------------
(* C3: CreateDbObject on a key with no live record adds exactly one        *)
(* record, with the comment given (empty when none is given), BackColor    *)
(* ULONG_MAX and the other fields 0 / FALSE; the count grows by one and    *)
(* every other record is unchanged.                                        *)
C3_CreateAddsDefault ==
    [][(call'.op = "create" /\ Live(ObjectDb, call'.tag, call'.name) = {}) =>
          LET new == DefaultRecord(call'.tag, call'.name,
                         IF call'.comment = NULL THEN EmptyString
                         ELSE Deref(call'.comment))
          IN  /\ new \notin ObjectDb
              /\ ObjectDb' = ObjectDb \cup {new}
              /\ GetNumberOfDbObjects(ObjectDb') = GetNumberOfDbObjects(ObjectDb) + 1
              /\ call'.ret = Ptr(new)]_vars

\* a record was created without a comment beside a record that is there
C3_Witness ==
    /\ call.op = "create"
    /\ call.status = "added"
    /\ call.comment = NULL
    /\ Deref(call.ret) = DefaultRecord(call.tag, call.name, EmptyString)
    /\ Deref(call.ret) \in ObjectDb
    /\ \E o \in ObjectDb : o # Deref(call.ret) /\ NonDefault(o)

----------------------------------------------------------------------------
(* C4: CreateDbObject on a key that has a live record returns that record  *)
(* and changes nothing but its comment, and the comment only when one is   *)
(* given; the stored name keeps its case, and the other fields, the count  *)
(* and the other records are unchanged.                                    *)
C4_CreateKeepsExisting ==
    [][(call'.op = "create" /\ Live(ObjectDb, call'.tag, call'.name) # {}) =>
          \E old \in Live(ObjectDb, call'.tag, call'.name) :
              LET new == IF call'.comment = NULL THEN old
                         ELSE [old EXCEPT !.Comment = Deref(call'.comment)]
              IN  /\ ObjectDb' = (ObjectDb \ {old}) \cup {new}
                  /\ GetNumberOfDbObjects(ObjectDb') = GetNumberOfDbObjects(ObjectDb)
                  /\ call'.ret = Ptr(new)]_vars

\* a call without a comment, by a name in another case, on a record with a
\* comment and assigned fields, beside another record
C4_Witness ==
    /\ call.op = "create"
    /\ call.status = "existing"
    /\ call.comment = NULL
    /\ Deref(call.ret).Name # call.name
    /\ Deref(call.ret).Comment # EmptyString
    /\ NonDefault(Deref(call.ret))
    /\ Cardinality(ObjectDb) = 2

----------------------------------------------------------------------------
(* C5: DeleteDbObject on a live record removes exactly that record: find   *)
(* on its key then returns NULL, the count is one less, and every other    *)
(* live record is there with its fields unchanged.                         *)
C5_DeleteRemovesOne ==
    [][call'.op = "delete" =>
          \E o \in ObjectDb :
              /\ o.Tag = call'.tag /\ o.Name = call'.name
              /\ ObjectDb' = ObjectDb \ {o}
              /\ GetNumberOfDbObjects(ObjectDb') = GetNumberOfDbObjects(ObjectDb) - 1
              /\ Live(ObjectDb', call'.tag, call'.name) = {}
              /\ FindDbObject(ObjectDb', call'.tag, call'.name) = NULL]_vars

\* a record was deleted and a record of the same name and another tag is
\* still there
C5_Witness ==
    /\ call.op = "delete"
    /\ Live(ObjectDb, call.tag, call.name) = {}
    /\ \E o \in ObjectDb : Upcase(o.Name) = Upcase(call.name) /\ NonDefault(o)

----------------------------------------------------------------------------
(* C7: a LoadDb that fails (the file cannot be opened, is no document, or  *)
(* has a root that is not an element) returns a failure status, the        *)
(* corruption status in the last two cases, and leaves the table as it     *)
(* was.                                                                    *)
C7_FailedLoadChangesNothing ==
    [][(call'.op = "load" /\ call'.file.kind \in {"absent", "garbage", "text"}) =>
          /\ ~NT_SUCCESS(call'.status)
          /\ call'.file.kind \in {"garbage", "text"} =>
                 call'.status = STATUS_FILE_CORRUPT_ERROR
          /\ ObjectDb' = ObjectDb]_vars

\* a document whose root is text was refused while the table held records
C7_Witness ==
    /\ call.op = "load"
    /\ call.file = TextFile
    /\ call.status = STATUS_FILE_CORRUPT_ERROR
    /\ call.before = 2
    /\ Cardinality(ObjectDb) = 2

----------------------------------------------------------------------------
(* C8: LoadDb of a file of length zero returns success and leaves the      *)
(* table as it was, empty or not.                                          *)
C8_BlankFileLoads ==
    [][(call'.op = "load" /\ call'.file.kind = "blank") =>
          /\ call'.status = STATUS_SUCCESS
          /\ ObjectDb' = ObjectDb]_vars

\* a blank file was loaded while the table held records
C8_Witness ==
    /\ call.op = "load"
    /\ call.file = BlankFile
    /\ call.status = STATUS_SUCCESS
    /\ call.before = 2
    /\ Cardinality(ObjectDb) = 2

----------------------------------------------------------------------------
(* C9: loaded into an empty table, an element with tag and name and no     *)
(* backcolor gives a record whose BackColor is ULONG_MAX, and an element   *)
(* whose backcolor is not a number gives a record whose BackColor is 0;    *)
(* the element tag=1 name=a priorityclass=2 collapse=1 with body "hello"   *)
(* gives exactly the record (1, a, "hello", 2, 0, ULONG_MAX, TRUE, 0).     *)
C9_BackColorDefault ==
    (call.op = "load" /\ call.before = 0) =>
        /\ call.file = DocFile(<<ExampleElement>>) =>
               ObjectDb = {[DefaultRecord(1, <<97>>, <<104, 101, 108, 108, 111>>)
                               EXCEPT !.PriorityClass = 2, !.Collapse = TRUE]}
        /\ call.file = DocFile(<<BadColorElement>>) =>
               ObjectDb = {[DefaultRecord(1, <<65>>, EmptyString)
                               EXCEPT !.BackColor = 0]}
        /\ call.file = DocFile(<<UpperCaseElement>>) =>
               \A o \in ObjectDb : o.BackColor = ULONG_MAX

\* the example element was loaded into an empty table
C9_Witness ==
    /\ call.op = "load"
    /\ call.before = 0
    /\ call.file = DocFile(<<ExampleElement>>)
    /\ call.status = STATUS_SUCCESS
    /\ \E o \in ObjectDb : o.BackColor = ULONG_MAX /\ o.Collapse

----------------------------------------------------------------------------
(* C6: round trip.  When SaveDb has written the table to the file and      *)
(* LoadDb reads that file into a new, empty table, the table holds the     *)
(* records that were saved, equal in every field.                          *)
C6_RoundTrip ==
    [][(/\ call.op = "restart"
        /\ call.file.kind = "document"
        /\ call'.op = "load") =>
          /\ call'.file = call.file
          /\ call'.before = 0
          /\ call'.status = STATUS_SUCCESS
          /\ ObjectDb' = call.db]_vars

\* the file SaveDb wrote was loaded into the empty table and gave two
\* records: one with BackColor ULONG_MAX, AffinityMask 0 and no comment,
\* one of a name outside ASCII with a comment and every field assigned
C6_Witness ==
    /\ call.op = "load"
    /\ call.before = 0
    /\ call.file = file
    /\ file = MxmlSaveFd(SaveNodes(ObjectDb))
    /\ Cardinality(ObjectDb) = 2
    /\ \E o \in ObjectDb : /\ o.BackColor = ULONG_MAX /\ o.AffinityMask = 0
                           /\ o.Comment = EmptyString
    /\ \E o \in ObjectDb : /\ NonDefault(o) /\ o.Name = <<233>>
                           /\ o.Comment # EmptyString

\* the labels at which a thread is inside a function of the table
OpLabels == {"GetNumberOfDbObjects", "FindDbObject", "CreateDbObject", "DeleteDbObject"}

\* the labels at which a thread is inside the traversal of LoadDb or SaveDb
TraversalLabels == {"LoadDb_loop", "SaveDb_loop"}

----------------------------------------------------------------------------
(* What is stated of one element of a document: its fields as the document *)
(* has them                                                                *)

\* the attributes of node that have a value and the name given; IgnoreCase:
\* taking a and A, ..., z and Z for the same
FieldIndexes(node, name, IgnoreCase) ==
    IF node.type # "MXML_ELEMENT" THEN {}
    ELSE {i \in 1..Len(node.attrs) :
            /\ node.attrs[i].value # NULL
            /\ IF IgnoreCase
               THEN UpcaseBytes(node.attrs[i].name) = UpcaseBytes(name)
               ELSE node.attrs[i].name = name}

\* the element has the field, its name in any letter case
HasField(node, name) == FieldIndexes(node, name, TRUE) # {}

\* the element has the field, its name in lower case
HasFieldExact(node, name) == FieldIndexes(node, name, FALSE) # {}

\* the text of the field (of the last attribute of that name)
FieldText(node, name) ==
    LET is == FieldIndexes(node, name, TRUE)
    IN  Deref(node.attrs[CHOOSE i \in is : \A j \in is : j <= i].value)

\* the number a decimal text stands for when it fits a ULONG, else 0
UlongOrZero(text) ==
    IF text # <<>> /\ (\A i \in 1..Len(text) : IsDigit(text[i]))
       /\ DigitsValue(text, 0) <= ULONG_MAX
    THEN DigitsValue(text, 0)
    ELSE 0

\* the number a decimal text stands for when it fits a ULONG64, else 0,
\* cut to a ULONG
UlongCut(text) ==
    IF text # <<>> /\ (\A i \in 1..Len(text) : IsDigit(text[i]))
       /\ DigitsValue(text, 0) <= ULONG64_MAX
    THEN DigitsValue(text, 0) % (ULONG_MAX + 1)
    ELSE 0

\* the element has tag and name
HasBoth(node) == HasField(node, AttrTag) /\ HasField(node, AttrName)

\* the key of an element that has tag and name
TagOf(node) == UlongCut(FieldText(node, AttrTag))

NameOf(node) == PhConvertUtf8ToUtf16(FieldText(node, AttrName))

\* the node LoadDb is at, and the step that reads it
CurrentNode == Head(frame[Caller].nodes)

NodeStep ==
    /\ pc[Caller] = "LoadDb_loop"
    /\ frame[Caller].nodes # <<>>
    /\ frame'[Caller].nodes # frame[Caller].nodes

\* LoadDb returns from its node loop
LoadReturns == pc[Caller] = "LoadDb_loop" /\ pc'[Caller] = "idle"

\* C11 as stated: when SaveDb returns success, the file at the path holds
\* the document of the table it enumerated.  (Refuted: mxmlSaveFd's result
\* is not looked at.)
C11_Original ==
    (call.op = "save" /\ NT_SUCCESS(call.status)) =>
        file = MxmlSaveFd(SaveNodes(call.db))

\* C12: a step of the node loop at a node without tag or without name
\* leaves the table as it is and goes on to the next node; a step at an
\* element with both leaves a record of its key; and when LoadDb returns
\* from the loop, which is its return of STATUS_SUCCESS, every element of
\* the document with both has a record.
C12_SkippedElements ==
    /\ [][NodeStep =>
            /\ ~HasBoth(CurrentNode) =>
                  /\ ObjectDb' = ObjectDb
                  /\ pc'[Caller] = "LoadDb_loop"
                  /\ frame'[Caller].nodes = Tail(frame[Caller].nodes)
            /\ HasBoth(CurrentNode) =>
                  Live(ObjectDb', TagOf(CurrentNode), NameOf(CurrentNode)) # {}]_vars
    /\ [][LoadReturns =>
            \A i \in 1..Len(frame[Caller].doc) :
                HasBoth(frame[Caller].doc[i]) =>
                    Live(ObjectDb, TagOf(frame[Caller].doc[i]),
                         NameOf(frame[Caller].doc[i])) # {}]_vars

\* LoadDb has read <object tag="1" name="a" ...>, an element without name
\* and <object tag="2" name="a" ...> into an empty table, which now has the
\* two records
C12_Witness ==
    /\ pc[Caller] = "LoadDb_loop"
    /\ frame[Caller].doc = <<ExampleElement, NoNameElement, PartialElement>>
    /\ frame[Caller].nodes = <<>>
    /\ frame[Caller].atLock = {}
    /\ Cardinality(ObjectDb) = 2

\* C13: at a step of the node loop at an element with tag and name whose
\* key has a record, the record keeps its BackColor when the element has no
\* backcolor, its Collapse when it has no collapse and its AffinityMask when
\* it has no affinity, each by itself.
C13_SeparateItemsKept ==
    [][(NodeStep /\ HasBoth(CurrentNode)) =>
          \A o \in Live(ObjectDb, TagOf(CurrentNode), NameOf(CurrentNode)) :
          \A o2 \in Live(ObjectDb', TagOf(CurrentNode), NameOf(CurrentNode)) :
              /\ ~HasField(CurrentNode, AttrBackColor) => o2.BackColor = o.BackColor
              /\ ~HasField(CurrentNode, AttrCollapse) => o2.Collapse = o.Collapse
              /\ ~HasField(CurrentNode, AttrAffinity) => o2.AffinityMask = o.AffinityMask]_vars

\* <object tag="2" name="a" iopriorityplusone="1" backcolor="0"
\* affinity="1"> has been read onto a record whose fields were all off
\* their defaults: its Collapse is kept, its BackColor and AffinityMask are
\* the element's
C13_Witness ==
    /\ pc[Caller] = "LoadDb_loop"
    /\ frame[Caller].doc = <<PartialElement, ExampleElement>>
    /\ frame[Caller].nodes = <<ExampleElement>>
    /\ \E o \in frame[Caller].atLock : HasKey(o, 2, <<97>>) /\ NonDefault(o)
    /\ \E o2 \in ObjectDb :
          /\ HasKey(o2, 2, <<97>>)
          /\ o2.Collapse
          /\ o2.BackColor = 0
          /\ o2.AffinityMask = 1

\* C14 as stated: at a step of the node loop at an element with tag and
\* name whose key has a record, the record keeps its PriorityClass when the
\* element has no priorityclass and its IoPriorityPlusOne when it has no
\* iopriorityplusone.
C14_Original ==
    [][(NodeStep /\ HasBoth(CurrentNode)) =>
          \A o \in Live(ObjectDb, TagOf(CurrentNode), NameOf(CurrentNode)) :
          \A o2 \in Live(ObjectDb', TagOf(CurrentNode), NameOf(CurrentNode)) :
              /\ ~HasField(CurrentNode, AttrPriorityClass) =>
                    o2.PriorityClass = o.PriorityClass
              /\ ~HasField(CurrentNode, AttrIoPriorityPlusOne) =>
                    o2.IoPriorityPlusOne = o.IoPriorityPlusOne]_vars

\* C14 as amended: after a step of the node loop at an element with tag and
\* name, the record of its key has PriorityClass 0 when the element has no
\* priorityclass and IoPriorityPlusOne 0 when it has no iopriorityplusone,
\* whatever they were before.
C14_AbsentPriorityIsZero ==
    [][(NodeStep /\ HasBoth(CurrentNode)) =>
          \A o2 \in Live(ObjectDb', TagOf(CurrentNode), NameOf(CurrentNode)) :
              /\ ~HasField(CurrentNode, AttrPriorityClass) => o2.PriorityClass = 0
              /\ ~HasField(CurrentNode, AttrIoPriorityPlusOne) =>
                    o2.IoPriorityPlusOne = 0]_vars

\* <object tag="1" name="A" backcolor="x"> has been read onto a record
\* with PriorityClass 2 and IoPriorityPlusOne 1, which are now 0
C14_Witness ==
    /\ pc[Caller] = "LoadDb_loop"
    /\ frame[Caller].doc = <<BadColorElement>>
    /\ frame[Caller].nodes = <<>>
    /\ \E o \in frame[Caller].atLock :
          HasKey(o, 1, <<97>>) /\ o.PriorityClass = 2 /\ o.IoPriorityPlusOne = 1
    /\ \E o2 \in ObjectDb :
          HasKey(o2, 1, <<97>>) /\ o2.PriorityClass = 0 /\ o2.IoPriorityPlusOne = 0

\* C15 as stated: a step of the node loop at an element that has no field
\* named tag in lower case, or none named name in lower case, leaves the
\* table as it is.
C15_Original ==
    [][(NodeStep /\ (\/ ~HasFieldExact(CurrentNode, AttrTag)
                     \/ ~HasFieldExact(CurrentNode, AttrName))) =>
          ObjectDb' = ObjectDb]_vars

\* C15 as amended: field names are matched ignoring letter case.  A step of
\* the node loop at an element whose tag and name fields are named in any
\* letter case leaves a record of its key, with the element's backcolor
\* when it has one under a name in any letter case.
C15_NamesIgnoreCase ==
    [][(NodeStep /\ HasBoth(CurrentNode)
          /\ (\/ ~HasFieldExact(CurrentNode, AttrTag)
              \/ ~HasFieldExact(CurrentNode, AttrName))) =>
          /\ Live(ObjectDb', TagOf(CurrentNode), NameOf(CurrentNode)) # {}
          /\ \A o2 \in Live(ObjectDb', TagOf(CurrentNode), NameOf(CurrentNode)) :
                HasField(CurrentNode, AttrBackColor) =>
                    o2.BackColor = UlongCut(FieldText(CurrentNode, AttrBackColor))]_vars

\* <object Tag="1" Name="a" BackColor="5"> has been read into an empty
\* table, which now has the record of key (1, "a") with BackColor 5
C15_Witness ==
    /\ pc[Caller] = "LoadDb_loop"
    /\ frame[Caller].doc = <<MixedCaseElement>>
    /\ frame[Caller].nodes = <<>>
    /\ frame[Caller].atLock = {}
    /\ \E o2 \in ObjectDb :
          ObjectDb = {o2} /\ HasKey(o2, 1, <<97>>) /\ o2.BackColor = 5

\* C16 as stated: after a step of the node loop at an element with tag and
\* name, the record is the one of the tag taken as 0 when its decimal text
\* is out of the range of a ULONG, and has priorityclass, iopriorityplusone
\* and backcolor taken the same way.  (Refuted: the number is cut to its
\* low bits.)
C16_Original ==
    [][(NodeStep /\ HasBoth(CurrentNode)) =>
          \E o2 \in Live(ObjectDb', UlongOrZero(FieldText(CurrentNode, AttrTag)),
                         NameOf(CurrentNode)) :
              /\ HasField(CurrentNode, AttrPriorityClass) =>
                    o2.PriorityClass = UlongOrZero(FieldText(CurrentNode, AttrPriorityClass))
              /\ HasField(CurrentNode, AttrIoPriorityPlusOne) =>
                    o2.IoPriorityPlusOne =
                        UlongOrZero(FieldText(CurrentNode, AttrIoPriorityPlusOne))
              /\ HasField(CurrentNode, AttrBackColor) =>
                    o2.BackColor = UlongOrZero(FieldText(CurrentNode, AttrBackColor))]_vars

\* C17: SaveDb leaves its enumeration with the elements of the table as it
\* was when its LockDb() returned, which is the table as it then still is;
\* LoadDb returns from its node loop with the table that its document makes
\* of the table as it was when its LockDb() returned; and while the table
\* is neither that one nor the one before, no other thread holds the lock
\* or is inside a function of the table.
C17_TraversalsAtomic ==
    /\ [][\A t \in Threads :
            (pc[t] = "SaveDb_loop" /\ pc'[t] = "SaveDb_write") =>
                /\ ObjectDb = frame[t].atLock
                /\ frame'[t].children = SaveNodes(frame[t].atLock).children]_vars
    /\ [][\A t \in Threads :
            (pc[t] = "LoadDb_loop" /\ pc'[t] = "idle") =>
                ObjectDb = LoadNodes(frame[t].atLock, frame[t].doc)]_vars
    /\ [](\A t \in Threads :
            (/\ pc[t] = "LoadDb_loop"
             /\ ObjectDb # frame[t].atLock
             /\ ObjectDb # LoadNodes(frame[t].atLock, frame[t].doc)) =>
                \A u \in Threads \ {t} :
                    ~frame[u].holds /\ pc[u] \notin OpLabels)

\* SaveDb has enumerated one of two objects while another thread, which is
\* to change the table, waits in LockDb
C17_Witness ==
    \E t, u \in Threads :
        /\ t # u
        /\ pc[t] = "SaveDb_loop"
        /\ frame[t].enumerationKey = 1
        /\ Cardinality(ObjectDb) = 2
        /\ pc[u] = "LockDb"

\* the names of the attributes SaveDb sets, in its order
SavedNames ==
    <<AttrTag, AttrName, AttrPriorityClass, AttrIoPriorityPlusOne, AttrBackColor,
      AttrCollapse, AttrAffinity>>

\* the decimal text stands for the number
IsDecimalOf(text, n) ==
    /\ text # NULL
    /\ Deref(text) # <<>>
    /\ \A i \in 1..Len(Deref(text)) : IsDigit(Deref(text)[i])
    /\ DigitsValue(Deref(text), 0) = n

\* the node of a written document is the element of the object
IsElementOf(node, o) ==
    /\ node.type = "MXML_ELEMENT"
    /\ [j \in 1..Len(node.attrs) |-> node.attrs[j].name] = SavedNames
    /\ IsDecimalOf(node.attrs[1].value, o.Tag)
    /\ node.attrs[2].value = Ptr(PhConvertUtf16ToUtf8Ex(o.Name))
    /\ IsDecimalOf(node.attrs[3].value, o.PriorityClass)
    /\ IsDecimalOf(node.attrs[4].value, o.IoPriorityPlusOne)
    /\ IsDecimalOf(node.attrs[5].value, o.BackColor)
    /\ IsDecimalOf(node.attrs[6].value, IF o.Collapse THEN 1 ELSE 0)
    /\ IsDecimalOf(node.attrs[7].value, o.AffinityMask)
    /\ node.opaque = IF o.Comment = EmptyString THEN NULL
                     ELSE Ptr(PhConvertUtf16ToUtf8Ex(o.Comment))

\* C18: SaveDb leaves the table as it is, and the document it writes has as
\* many child nodes as the table has objects, each the element of an object
\* with the seven attributes and the comment as text, and every object has
\* its element; for the empty table the document has no child node.
C18_SaveEncodesEachRecord ==
    [][call'.op = "save" =>
          /\ ObjectDb' = ObjectDb
          /\ (NT_SUCCESS(call'.status) /\ file'.kind = "document") =>
                /\ Len(file'.nodes) = Cardinality(ObjectDb)
                /\ \A i \in 1..Len(file'.nodes) :
                      \E o \in ObjectDb : IsElementOf(file'.nodes[i], o)
                /\ \A o \in ObjectDb :
                      \E i \in 1..Len(file'.nodes) : IsElementOf(file'.nodes[i], o)
                /\ ObjectDb = {} => file'.nodes = <<>>]_vars

\* SaveDb has written two objects, one with BackColor ULONG_MAX and
\* AffinityMask 0 and one with every field off its default
C18_Witness ==
    /\ call.op = "save"
    /\ NT_SUCCESS(call.status)
    /\ file.kind = "document"
    /\ Len(file.nodes) = 2
    /\ Cardinality(ObjectDb) = 2
    /\ \E o \in ObjectDb : o.BackColor = ULONG_MAX /\ o.AffinityMask = 0
    /\ \E o \in ObjectDb : NonDefault(o)

\* the labels at which a thread waits for the lock
WaitLabels == {"LockDb", "LoadDb_lock", "SaveDb_lock"}

\* C19: when LoadDb or SaveDb returns, from any of its returns, the thread
\* does not hold the lock; and a thread that waits for the lock gets it.
C19_LockReleased ==
    /\ [][\A t \in Threads :
            (/\ pc[t] \in {"LoadDb_return", "LoadDb_loop", "SaveDb_write"}
             /\ pc'[t] = "idle") =>
                ~frame'[t].holds /\ ObjectDbLock' # Ptr(t)]_vars
    /\ \A u \in Threads : (pc[u] \in WaitLabels) ~> (ObjectDbLock = Ptr(u))

\* a thread waits in LockDb while another is in the node loop of LoadDb
C19_Witness ==
    \E t, u \in Threads :
        /\ t # u
        /\ pc[t] = "LoadDb_loop"
        /\ frame[t].nodes # <<>>
        /\ pc[u] = "LockDb"

\* the keys of the elements of a document that have tag and name
MaterializedKeys(nodes) ==
    {<<TagOf(nodes[i]), Upcase(NameOf(nodes[i]))>> :
        i \in {j \in 1..Len(nodes) : HasBoth(nodes[j])}}

\* C20: after LoadDb has returned success the table has no fewer objects
\* than before, every key that had an object has one, and an object whose
\* key no element of the document has is as it was.
C20_LoadMerges ==
    [][(call'.op = "load" /\ NT_SUCCESS(call'.status)) =>
          /\ Cardinality(ObjectDb') >= Cardinality(ObjectDb)
          /\ \A o \in ObjectDb :
                /\ Live(ObjectDb', o.Tag, o.Name) # {}
                /\ <<o.Tag, Upcase(o.Name)>> \notin MaterializedKeys(call'.file.nodes) =>
                      o \in ObjectDb']_vars

\* LoadDb has read <object TAG="2" NAME="e-acute"> into a table that had
\* one object, of another key and with every field off its default, which
\* is still there
C20_Witness ==
    /\ call.op = "load"
    /\ NT_SUCCESS(call.status)
    /\ call.file = DocFile(<<UpperCaseElement>>)
    /\ call.before = 1
    /\ Cardinality(ObjectDb) = 2
    /\ \E o \in ObjectDb : HasKey(o, 1, <<97>>) /\ NonDefault(o)

============================================================================
